---- MODULE Spec2Model ----
(***************************************************************************)
(* Model of the Telegram recommendation bot of src/main.py: the            *)
(* ConversationHandler state machine, the per-user user_data, the tool     *)
(* cards in each chat and the external calls (Groq, Google search) the     *)
(* handlers make.  Updates are processed one at a time: a handler that     *)
(* makes a synchronous external call keeps the event loop until it returns.*)
(***************************************************************************)
EXTENDS Integers, Sequences, FiniteSets, TLC

\* ------------------------------------------------------------------ bounds
Users == {"u1", "u2"}
MaxMatches == 4

\* ------------------------------------------------- conversation states
Idle == "Idle"
CHOOSE_ACTION == "CHOOSE_ACTION"
GET_RECOMMENDATION_INPUT == "GET_RECOMMENDATION_INPUT"
GET_KEYWORD_SEARCH_INPUT == "GET_KEYWORD_SEARCH_INPUT"
WEB_SEARCH_PROMPT == "WEB_SEARCH_PROMPT"

\* ------------------------------------------------------- message texts
SmartChoice == "smart recommendation"
QuickChoice == "quick search"
WebChoice == "search allaitools.dev"
WebChoiceLoose == "search allaitoolsXdev"
MenuChoice == "back to main menu"
Texts == {SmartChoice, QuickChoice, WebChoice, WebChoiceLoose, MenuChoice, "notes"}
NoQuery == ""

\* filters.Regex("^... allaitools.dev$"): the unescaped dot matches any character
MatchesWebRegex(t) == t \in {WebChoice, WebChoiceLoose}
MatchesMenuRegex(t) == t = MenuChoice

\* ------------------------------------------------------------ catalog
NoteApp == [name |-> "NoteApp", description |-> "note taking app",
            url |-> "https://noteapp.example"]
Bare == [name |-> "Bare"]
Configs ==
  { [tools |-> <<NoteApp, Bare>>, groq |-> TRUE, google |-> TRUE],
    [tools |-> <<>>, groq |-> TRUE, google |-> TRUE],
    [tools |-> <<NoteApp>>, groq |-> FALSE, google |-> FALSE] }

\* str.lower() on the strings that occur as names
Lower(s) ==
  CASE s = "NoteApp" -> "noteapp"
    [] s = "Ghost" -> "ghost"
    [] s = "Bare" -> "bare"
    [] s = "N" -> "n"
    [] OTHER -> s

\* dict.get(key, default)
Get(d, key, default) == IF key \in DOMAIN d THEN d[key] ELSE default

\* ------------------------------------------------- Python values returned
\* by get_semantic_recommendation: a list, a str, an int or None.
NonStr == "<int>"
Names == {"noteapp", "Bare", "Ghost"}
PyList(s) == [t |-> "list", v |-> s]
PyStr(chars) == [t |-> "str", v |-> chars]
PyInt == [t |-> "int", v |-> <<>>]
PyNone == [t |-> "none", v |-> <<>>]
Truthy(x) ==
  CASE x.t = "list" -> x.v # <<>>
    [] x.t = "str" -> x.v # <<>>
    [] x.t = "int" -> TRUE
    [] OTHER -> FALSE
Iterable(x) == x.t \in {"list", "str"}

\* a value of the shape the reranker's prompt asks for: a list of names
NameList(x) == x.t = "list" /\ \A i \in 1..Len(x.v) : x.v[i] \in Names

SeqsUpTo(S, n) == UNION { [1..k -> S] : k \in 0..n }

\* outcomes of client.chat.completions.create + json.loads in the reranker
RerankResponses ==
  { [kind |-> k, bm |-> PyNone] : k \in {"error", "badjson", "nonobject", "nokey"} }
  \cup { [kind |-> "obj", bm |-> PyList(s)] : s \in SeqsUpTo(Names, MaxMatches) }
  \cup { [kind |-> "obj", bm |-> PyList(s \o <<NonStr>>)] : s \in SeqsUpTo(Names, 1) }
  \cup { [kind |-> "obj", bm |-> b] : b \in {PyStr(<<"N", "o">>), PyInt, PyNone} }

\* lines 146-150: what the reranker returns for an outcome of the call
RerankReturn(resp) ==
  IF resp.kind = "obj" THEN resp.bm ELSE PyList(<<>>)

\* ------------------------------------------------------------ Markdown
\* Strings are sequences of tokens; "*", "_", "[", "](" and ")" are the
\* markup characters of Telegram's legacy Markdown (parse_mode='Markdown').
\* ParseMarkdown is what the Bot API does with a text sent with that
\* parse_mode: markup is removed from the text and becomes entities; an
\* unclosed entity is rejected (BadRequest: can't parse entities).
Entity(type, at, url) == [type |-> type, at |-> at, url |-> url]

RECURSIVE MdScan(_, _, _, _, _)
MdScan(src, i, mode, text, ents) ==
  IF i > Len(src) THEN [ok |-> mode = "text", text |-> text, ents |-> ents]
  ELSE LET tok == src[i] IN
    CASE mode = "text" ->
           IF tok = "*" THEN MdScan(src, i + 1, "bold", text, ents)
           ELSE IF tok = "_" THEN MdScan(src, i + 1, "italic", text, ents)
           ELSE IF tok = "[" THEN MdScan(src, i + 1, "linktext", text, ents)
           ELSE MdScan(src, i + 1, "text", Append(text, tok), ents)
      [] mode = "bold" ->
           IF tok = "*" THEN MdScan(src, i + 1, "text", text, ents)
           ELSE MdScan(src, i + 1, "bold", Append(text, tok),
                       Append(ents, Entity("bold", Len(text) + 1, "")))
      [] mode = "italic" ->
           IF tok = "_" THEN MdScan(src, i + 1, "text", text, ents)
           ELSE MdScan(src, i + 1, "italic", Append(text, tok),
                       Append(ents, Entity("italic", Len(text) + 1, "")))
      [] mode = "linktext" ->
           IF tok = "](" THEN MdScan(src, i + 1, "linkurl", text, ents)
           ELSE MdScan(src, i + 1, "linktext", Append(text, tok), ents)
      [] OTHER ->
           IF tok = ")" THEN MdScan(src, i + 1, "text", text, ents)
           ELSE MdScan(src, i + 1, "linkurl", text,
                       Append(ents, Entity("text_link", Len(text), tok)))

\* the Bot API trims trailing whitespace of a message text
RECURSIVE RStrip(_)
RStrip(text) ==
  IF text # <<>> /\ text[Len(text)] = "\n"
  THEN RStrip(SubSeq(text, 1, Len(text) - 1)) ELSE text

ParseMarkdown(src) ==
  LET r == MdScan(src, 1, "text", <<>>, <<>>)
  IN [ok |-> r.ok, text |-> RStrip(r.text), ents |-> r.ents]

\* a chat message as the transport holds it: plain text, entities, keyboard
NoMarkup == <<>>
Button(action, name) == <<action, name>>
Message(text, ents, markup) == [text |-> text, ents |-> ents, markup |-> markup]
NoCard == Message(<<>>, <<>>, <<"absent">>)

\* line 178: message_text of send_tool_recommendation
CardSource(tool) ==
  <<"[brain] ", "*", "*", "*", tool["name"], "*", "*", "*", "\n",
    "*", Get(tool, "description", "No description available."), "*", "\n",
    "[link] ", "[", "link to tool", "](", Get(tool, "url", "#"), ")", "\n">>

\* lines 175-179: the card send_tool_recommendation puts in the chat,
\* tabulated over the records of the catalogs
Catalog == {NoteApp, Bare}
RenderedCard ==
  [tool \in Catalog |->
     LET m == ParseMarkdown(CardSource(tool))
     IN Message(m.text, m.ents, Button("price_check", tool["name"]))]
send_tool_recommendation(tool) == RenderedCard[tool]

\* line 187: the "checking price" text; edit_message_text without
\* reply_markup removes the inline keyboard
CheckingSource(tool_name) == <<"checking price for ", "*", tool_name, "*", "...">>
\* line 190: the price text
PriceSource(tool_name, price_info) ==
  <<"pricing for ", "*", tool_name, "*", ":", "\n", "\n">> \o price_info

\* outcomes of get_price_from_groq (lines 152-167): the model's answer or one
\* of the two failure strings
PriceNoKey == <<"could not check the price">>
PriceError == <<"error while checking the price">>
PriceAnswers == { <<"10 USD a month">> }

\* lines 169-173
RECURSIVE FindFrom(_, _, _)
FindFrom(tools, i, name) ==
  IF i > Len(tools) THEN <<>>
  ELSE IF Lower(tools[i]["name"]) = Lower(name) THEN <<tools[i]>>
  ELSE FindFrom(tools, i + 1, name)
find_tool_by_name(tools, name) == FindFrom(tools, 1, name)
\* name.lower() raises AttributeError when name is not a str and the loop
\* body runs at least once
FindRaises(tools, name) == tools # <<>> /\ name = NonStr

\* ---------------------------------------------------------------- state
VARIABLES
  config,         \* tools_db and the credentials read at import (lines 32-63)
  conversations,  \* ConversationHandler's state per user; Idle = no entry
  last_query,     \* context.user_data['last_query'] per user
  tool_snap,      \* context.user_data['tool_<name>'] per user and tool name
  card,           \* per user and tool name, the newest card message in the chat
  running,        \* the update being handled and where its handler stands
  trace,          \* replies, cards and calls of the handler of that update
  rerank_result,  \* per user, what recommended_tool_names was in the user's
                  \* latest get_recommendation: "empty", "names" or "other"
  card_at_snapshot, \* per user and tool name, the card as it was in the chat
                  \* when price_check_callback last took its snapshot
  tools_file,     \* tools.json as create_embeddings.py finds it
  index_file,     \* tools.faiss
  mapping_file,   \* index_to_name.json
  build           \* a run of create_and_save_embeddings: where it stands and
                  \* its local variables

botvars == <<config, conversations, last_query, tool_snap, card, running, trace,
             rerank_result, card_at_snapshot>>
buildvars == <<tools_file, index_file, mapping_file, build>>
vars == <<config, conversations, last_query, tool_snap, card, running, trace,
          rerank_result, card_at_snapshot, tools_file, index_file, mapping_file,
          build>>

ToolNames == {"NoteApp", "Bare"}
NoSnap == [text |-> <<>>, markup |-> <<"absent">>]
\* lines 185-186: the snapshot is query.message.text, the text without its
\* entities, and the keyboard
Snapshot(m) == [text |-> m.text, markup |-> m.markup]

Reply(what) == [k |-> "reply", what |-> what, arg |-> ""]
Call(fn, arg) == [k |-> "call", what |-> fn, arg |-> arg]
Ext(service) == [k |-> "ext", what |-> service, arg |-> ""]
CardSent(name) == [k |-> "card", what |-> "send_tool_recommendation", arg |-> name]

Command(c) == [kind |-> "command", data |-> c, name |-> ""]
Text(t) == [kind |-> "text", data |-> t, name |-> ""]
Callback(action, name) == [kind |-> "callback", data |-> action, name |-> name]
NoUpdate == [kind |-> "none", data |-> "", name |-> ""]

Run(u, upd, handler, pc, exc) ==
  [user |-> u, upd |-> upd, handler |-> handler, pc |-> pc, exc |-> exc]
Free == running.pc = "done"

Absent == [present |-> FALSE, of |-> <<>>, content |-> <<>>]
NoBuild == [pc |-> "idle", tools |-> <<>>, tool_names |-> <<>>, embeddings |-> <<>>]

BotInit ==
  /\ config \in Configs
  /\ conversations = [u \in Users |-> Idle]
  /\ last_query = [u \in Users |-> NoQuery]
  /\ tool_snap = [u \in Users |-> [n \in ToolNames |-> NoSnap]]
  /\ card = [u \in Users |-> [n \in ToolNames |-> NoCard]]
  /\ running = Run("none", NoUpdate, "none", "done", "none")
  /\ trace = <<>>
  /\ rerank_result = [u \in Users |-> "none"]
  /\ card_at_snapshot = [u \in Users |-> [n \in ToolNames |-> NoCard]]

\* the bot starts from the tools.json it loaded; no index has been built
Init ==
  /\ BotInit
  /\ tools_file = [present |-> TRUE, of |-> <<>>, content |-> config.tools]
  /\ index_file = Absent
  /\ mapping_file = Absent
  /\ build = NoBuild

\* ------------------------------------------------------------- handlers
\* lines 202-212: start replies with the main menu and returns CHOOSE_ACTION;
\* it leaves user_data alone
StartReturns == CHOOSE_ACTION
StartTraceSilent == <<>>
StartTrace == <<Reply("main menu")>>

\* lines 317, 327: /start is the entry point and the fallback of every state
StartCommand(u) ==
  /\ UNCHANGED buildvars
  /\ Free
  /\ running' = Run(u, Command("start"), "start", "done", "none")
  /\ trace' = StartTrace
  /\ conversations' = [conversations EXCEPT ![u] = StartReturns]
  /\ UNCHANGED <<config, last_query, tool_snap, card, rerank_result, card_at_snapshot>>

\* lines 316-333: no handler is registered for /cancel (the state handlers
\* exclude commands, the only fallback is /start), so the update is dropped
CancelCommand(u) ==
  /\ UNCHANGED buildvars
  /\ Free
  /\ running' = Run(u, Command("cancel"), "none", "done", "none")
  /\ trace' = <<>>
  /\ UNCHANGED <<config, conversations, last_query, tool_snap, card, rerank_result, card_at_snapshot>>

\* lines 316-328: a text no handler of the current state matches is dropped
NoTextHandler(state, t) ==
  \/ state = Idle
  \/ state = WEB_SEARCH_PROMPT /\ ~MatchesWebRegex(t) /\ ~MatchesMenuRegex(t)

UnhandledText(u, t) ==
  /\ UNCHANGED buildvars
  /\ Free
  /\ NoTextHandler(conversations[u], t)
  /\ running' = Run(u, Text(t), "none", "done", "none")
  /\ trace' = <<>>
  /\ UNCHANGED <<config, conversations, last_query, tool_snap, card, rerank_result, card_at_snapshot>>

\* lines 214-222
ChooseActionSwapped(user_choice) ==
  IF user_choice = SmartChoice THEN GET_KEYWORD_SEARCH_INPUT
  ELSE IF user_choice = QuickChoice THEN GET_RECOMMENDATION_INPUT
  ELSE CHOOSE_ACTION
ChooseActionReturns(user_choice) ==
  IF user_choice = SmartChoice THEN GET_RECOMMENDATION_INPUT
  ELSE IF user_choice = QuickChoice THEN GET_KEYWORD_SEARCH_INPUT
  ELSE CHOOSE_ACTION
ChooseActionTrace(user_choice) ==
  IF user_choice = SmartChoice THEN <<Reply("describe the tool")>>
  ELSE IF user_choice = QuickChoice THEN <<Reply("type a keyword")>>
  ELSE <<>>

choose_action(u, t) ==
  /\ UNCHANGED buildvars
  /\ Free
  /\ conversations[u] = CHOOSE_ACTION
  /\ running' = Run(u, Text(t), "choose_action", "done", "none")
  /\ trace' = ChooseActionTrace(t)
  /\ conversations' = [conversations EXCEPT ![u] = ChooseActionReturns(t)]
  /\ UNCHANGED <<config, last_query, tool_snap, card, rerank_result, card_at_snapshot>>

\* lines 233-236: the loop over recommended_tool_names; sent is the sequence
\* of tools whose card was sent, exc the exception that ended the loop
RECURSIVE SendLoop(_, _, _, _)
SendLoop(tools, names, i, sent) ==
  IF i > Len(names) THEN [sent |-> sent, exc |-> "none"]
  ELSE IF FindRaises(tools, names[i]) THEN [sent |-> sent, exc |-> "AttributeError"]
  ELSE LET tool == find_tool_by_name(tools, names[i])
       IN SendLoop(tools, names, i + 1, IF tool # <<>> THEN sent \o tool ELSE sent)

\* lines 231-246: what get_recommendation does with recommended_tool_names
RecommendationOutcome(tools, names) ==
  IF ~Truthy(names)
  THEN [sent |-> <<>>, exc |-> "none",
        msgs |-> <<Reply("no good match"), Reply("follow-up offer")>>]
  ELSE IF ~Iterable(names)
  THEN [sent |-> <<>>, exc |-> "TypeError", msgs |-> <<Reply("best matches header")>>]
  ELSE LET r == SendLoop(tools, names.v, 1, <<>>)
           cards == [i \in 1..Len(r.sent) |-> CardSent(r.sent[i]["name"])]
       IN [sent |-> r.sent, exc |-> r.exc,
           msgs |-> <<Reply("best matches header")>> \o cards \o
                    (IF r.exc = "none" THEN <<Reply("follow-up offer")>> ELSE <<>>)]

\* the cards now in the chat: the newest card of each tool name
RECURSIVE PutCards(_, _, _)
PutCards(c, sent, i) ==
  IF i > Len(sent) THEN c
  ELSE PutCards([c EXCEPT ![sent[i]["name"]] = send_tool_recommendation(sent[i])],
                sent, i + 1)

\* a handler that raises leaves the conversation state as it was
\* (ConversationHandler stores the new state only when the callback returns)
RecommendationNextKeep(state, out) == state
RecommendationNext(state, out) ==
  IF out.exc = "none" THEN WEB_SEARCH_PROMPT ELSE state

\* line 231: recommended_tool_names is falsy, a non-empty list of names, or
\* another truthy value
ResultClass(names) ==
  IF ~Truthy(names) THEN "empty" ELSE IF NameList(names) THEN "names" ELSE "other"

\* lines 229-246, from the return of get_semantic_recommendation on
FinishRecommendation(u, upd, names, before) ==
  LET out == RecommendationOutcome(config.tools, names) IN
  /\ trace' = before \o out.msgs
  /\ card' = [card EXCEPT ![u] = PutCards(card[u], out.sent, 1)]
  /\ conversations' =
       [conversations EXCEPT ![u] = RecommendationNext(conversations[u], out)]
  /\ rerank_result' = [rerank_result EXCEPT ![u] = ResultClass(names)]
  /\ running' = Run(u, upd, "get_recommendation", "done", out.exc)

\* line 226
StoreQueryNot(lq, u, text) == lq
StoreQueryEmpty(lq, u, text) == [lq EXCEPT ![u] = NoQuery]
StoreQueryAll(lq, u, text) == [v \in DOMAIN lq |-> text]
StoreQuery(lq, u, text) == [lq EXCEPT ![u] = text]

\* lines 224-229 and 123-127: the query is stored, then the reranker is
\* called; without GROQ_API_KEY it returns [] before creating the client
get_recommendation(u, t) ==
  /\ UNCHANGED buildvars
  /\ Free
  /\ conversations[u] = GET_RECOMMENDATION_INPUT
  /\ last_query' = StoreQuery(last_query, u, t)
  /\ IF ~config.groq
     THEN FinishRecommendation(u, Text(t), PyList(<<>>),
            <<Reply("analyzing"), Call("get_semantic_recommendation", t)>>)
     ELSE /\ running' = Run(u, Text(t), "get_recommendation", "rerank_call", "none")
          /\ trace' = <<Reply("analyzing"), Call("get_semantic_recommendation", t),
                        Ext("groq")>>
          /\ UNCHANGED <<conversations, card, rerank_result, card_at_snapshot>>
  /\ UNCHANGED <<config, tool_snap, card_at_snapshot>>

\* lines 137-150 and 229-246: the external call ends, the reranker returns
RerankReturns(resp) ==
  /\ UNCHANGED buildvars
  /\ running.pc = "rerank_call"
  /\ FinishRecommendation(running.user, running.upd, RerankReturn(resp), trace)
  /\ UNCHANGED <<config, last_query, tool_snap, card_at_snapshot>>

\* lines 265-269: find_tools_in_db is defined nowhere, so line 269 raises
\* NameError after the query was stored and the first reply was sent
keyword_search(u, t) ==
  /\ UNCHANGED buildvars
  /\ Free
  /\ conversations[u] = GET_KEYWORD_SEARCH_INPUT
  /\ last_query' = StoreQuery(last_query, u, t)
  /\ trace' = <<Reply("searching keyword")>>
  /\ running' = Run(u, Text(t), "keyword_search", "done", "NameError")
  /\ rerank_result' = [rerank_result EXCEPT ![u] = "none"]
  /\ UNCHANGED <<config, conversations, tool_snap, card, card_at_snapshot>>

\* lines 93-96: no results, no call
SummaryOf(outcome) == [k |-> "reply", what |-> "summary", arg |-> outcome]

\* lines 261-263: the summary is sent, then start() shows the main menu
FinishWebSearch(u, upd, before, summary) ==
  /\ trace' = before \o <<SummaryOf(summary)>> \o StartTrace
  /\ conversations' = [conversations EXCEPT ![u] = StartReturns]
  /\ running' = Run(u, upd, "web_search_prompt_handler", "done", "none")

\* lines 93-103: summarize_search_results; with no results it returns at
\* once, without GROQ_API_KEY creating the client raises inside the try
Summarize(u, upd, before, results, q) ==
  LET t1 == before \o <<Call("summarize_search_results", q)>> IN
  IF results = "none" THEN FinishWebSearch(u, upd, t1, "no results")
  ELSE IF ~config.groq THEN FinishWebSearch(u, upd, t1, "summary error")
  ELSE /\ trace' = t1 \o <<Ext("groq")>>
       /\ running' = Run(u, upd, "web_search_prompt_handler", "summary_call", "none")
       /\ UNCHANGED conversations

\* line 250 compares the text with ==, the filter of line 323 is a regex
WebQueryStale(u, lq) == "notes"
WebQuery(u, lq) == lq[u]

\* lines 248-263 up to the first external call
web_search_prompt_handler(u, t) ==
  /\ UNCHANGED buildvars
  /\ Free
  /\ conversations[u] = WEB_SEARCH_PROMPT
  /\ MatchesWebRegex(t)
  /\ IF t # WebChoice
     THEN /\ trace' = StartTrace
          /\ conversations' = [conversations EXCEPT ![u] = StartReturns]
          /\ running' = Run(u, Text(t), "web_search_prompt_handler", "done", "none")
     ELSE IF WebQuery(u, last_query) = NoQuery
     THEN /\ trace' = <<Reply("forgot the query")>> \o StartTrace
          /\ conversations' = [conversations EXCEPT ![u] = StartReturns]
          /\ running' = Run(u, Text(t), "web_search_prompt_handler", "done", "none")
     ELSE LET q == WebQuery(u, last_query)
              t0 == <<Reply("searching the web"), Call("perform_live_web_search", q)>>
          IN IF ~config.google
             THEN Summarize(u, Text(t), t0, "none", q)
             ELSE /\ trace' = t0 \o <<Ext("google")>>
                  /\ running' = Run(u, Text(t), "web_search_prompt_handler",
                                    "search_call", "none")
                  /\ UNCHANGED conversations
  /\ UNCHANGED <<config, last_query, tool_snap, card, rerank_result, card_at_snapshot>>

\* lines 84-91 and 259: the search request ends (error, no items, items)
SearchOutcomes == {"error", "none", "items"}
SearchReturns(outcome) ==
  /\ UNCHANGED buildvars
  /\ running.pc = "search_call"
  /\ Summarize(running.user, running.upd, trace,
               IF outcome = "items" THEN "items" ELSE "none",
               WebQuery(running.user, last_query))
  /\ UNCHANGED <<config, last_query, tool_snap, card, rerank_result, card_at_snapshot>>

\* lines 104-121 and 261-263: the summary request ends
SummaryOutcomes == {"summary", "summary error"}
SummaryReturns(outcome) ==
  /\ UNCHANGED buildvars
  /\ running.pc = "summary_call"
  /\ FinishWebSearch(running.user, running.upd, trace, outcome)
  /\ UNCHANGED <<config, last_query, tool_snap, card, rerank_result, card_at_snapshot>>

\* line 324: the "main menu" text in WEB_SEARCH_PROMPT is handled by start
MainMenu(u, t) ==
  /\ UNCHANGED buildvars
  /\ Free
  /\ conversations[u] = WEB_SEARCH_PROMPT
  /\ ~MatchesWebRegex(t) /\ MatchesMenuRegex(t)
  /\ running' = Run(u, Text(t), "start", "done", "none")
  /\ trace' = StartTrace
  /\ conversations' = [conversations EXCEPT ![u] = StartReturns]
  /\ UNCHANGED <<config, last_query, tool_snap, card, rerank_result, card_at_snapshot>>

\* line 190: the second edit of the card; a price text the Bot API cannot
\* parse makes edit_message_text raise BadRequest and leaves the card as is
ShowPrice(u, upd, tool_name, price_info) ==
  LET m == ParseMarkdown(PriceSource(tool_name, price_info)) IN
  IF m.ok
  THEN /\ card' = [card EXCEPT ![u][tool_name] =
                     Message(m.text, m.ents, Button("back_to_tool", tool_name))]
       /\ running' = Run(u, upd, "price_check_callback", "done", "none")
  ELSE /\ card' = card
       /\ running' = Run(u, upd, "price_check_callback", "done", "BadRequest")

\* line 187: the first edit of the card
Checking(tool_name) ==
  LET m == ParseMarkdown(CheckingSource(tool_name))
  IN Message(m.text, m.ents, NoMarkup)

\* lines 181-188: a press of the price button of the card of tool_name
price_check_callback(u, tool_name) ==
  /\ UNCHANGED buildvars
  /\ Free
  /\ card[u][tool_name].markup = Button("price_check", tool_name)
  /\ tool_snap' = [tool_snap EXCEPT ![u][tool_name] = Snapshot(card[u][tool_name])]
  /\ card_at_snapshot' = [card_at_snapshot EXCEPT ![u][tool_name] = card[u][tool_name]]
  /\ IF ~config.groq
     THEN /\ trace' = <<Call("get_price_from_groq", tool_name)>>
          /\ ShowPrice(u, Callback("price_check", tool_name), tool_name, PriceNoKey)
     ELSE /\ trace' = <<Call("get_price_from_groq", tool_name), Ext("groq")>>
          /\ card' = [card EXCEPT ![u][tool_name] = Checking(tool_name)]
          /\ running' = Run(u, Callback("price_check", tool_name),
                            "price_check_callback", "price_call", "none")
  /\ UNCHANGED <<config, conversations, last_query, rerank_result>>

\* lines 157-167 and 189-190: the price request ends
PriceOutcomes == PriceAnswers \cup {PriceError}
PriceReturns(price_info) ==
  /\ UNCHANGED buildvars
  /\ running.pc = "price_call"
  /\ ShowPrice(running.user, running.upd, running.upd.name, price_info)
  /\ UNCHANGED <<config, conversations, last_query, tool_snap, trace,
                 rerank_result, card_at_snapshot>>

\* lines 196-200: the card back_to_tool_callback puts in place
RestoredCard(original_data) ==
  IF original_data # NoSnap
  THEN LET m == ParseMarkdown(original_data.text)
       IN [ok |-> m.ok, msg |-> Message(m.text, m.ents, original_data.markup)]
  ELSE [ok |-> TRUE,
        msg |-> Message(<<"error: the original information was not found">>,
                        <<>>, NoMarkup)]

\* lines 192-200: a press of the back button of the card of tool_name
back_to_tool_callback(u, tool_name) ==
  /\ UNCHANGED buildvars
  /\ Free
  /\ card[u][tool_name].markup = Button("back_to_tool", tool_name)
  /\ LET r == RestoredCard(tool_snap[u][tool_name]) IN
       IF r.ok
       THEN /\ card' = [card EXCEPT ![u][tool_name] = r.msg]
            /\ running' = Run(u, Callback("back_to_tool", tool_name),
                              "back_to_tool_callback", "done", "none")
       ELSE /\ card' = card
            /\ running' = Run(u, Callback("back_to_tool", tool_name),
                              "back_to_tool_callback", "done", "BadRequest")
  /\ trace' = <<>>
  /\ UNCHANGED <<config, conversations, last_query, tool_snap, rerank_result,
                 card_at_snapshot>>

\* ------------------------------------------------------------ the bot
\* The updates of the users in US, with queries from QS and the external
\* services answering from RS (reranker) and PS (price lookup).
NextOf(US, QS, RS, PS) ==
  \/ \E u \in US : StartCommand(u)
  \/ \E u \in US : CancelCommand(u)
  \/ \E u \in US, t \in Texts : UnhandledText(u, t)
  \/ \E u \in US, t \in Texts : choose_action(u, t)
  \/ \E u \in US, t \in QS : get_recommendation(u, t)
  \/ \E resp \in RS : RerankReturns(resp)
  \/ \E u \in US, t \in QS : keyword_search(u, t)
  \/ \E u \in US, t \in Texts : web_search_prompt_handler(u, t)
  \/ \E o \in SearchOutcomes : SearchReturns(o)
  \/ \E o \in SummaryOutcomes : SummaryReturns(o)
  \/ \E u \in US, t \in Texts : MainMenu(u, t)
  \/ \E u \in US, n \in ToolNames : price_check_callback(u, n)
  \/ \E p \in PS : PriceReturns(p)
  \/ \E u \in US, n \in ToolNames : back_to_tool_callback(u, n)

\* one user's conversation; the queries are a free text and a text that is
\* also a button label
Queries == {"notes", WebChoice}
Next == NextOf({"u1"}, Queries, RerankResponses, PriceOutcomes)
Spec == Init /\ [][Next]_vars

\* two users' conversations interleaved, with one query text and a few
\* answers of the external services
FewRerankResponses ==
  { [kind |-> "error", bm |-> PyNone],
    [kind |-> "obj", bm |-> PyList(<<"noteapp">>)] }
NextUsers == NextOf(Users, {"notes"}, FewRerankResponses, {PriceError})
SpecUsers == Init /\ [][NextUsers]_vars

\* ------------------------------------------------ create_embeddings.py
\* A second record under the name of NoteApp, and a record without a name.
Twin == [name |-> "NoteApp", category |-> "notes", description |-> "a clone"]
Nameless == [description |-> "no name"]
\* the contents tools.json takes
BuildCatalogs ==
  { <<>>, <<NoteApp>>, <<NoteApp, Twin>>, <<Twin, NoteApp>>, <<Bare, NoteApp>>,
    <<NoteApp, Nameless>> }
ToolsFiles ==
  { [present |-> TRUE, content |-> c] : c \in BuildCatalogs }
    \cup { [present |-> FALSE, content |-> <<>>] }

\* line 27: the text embedded for a tool
CombinedText(tool) ==
  <<"name:", Get(tool, "name", ""), "category:", Get(tool, "category", ""),
    "description:", Get(tool, "description", "")>>
\* line 36: the vector of a text; equal texts give equal vectors
Embed(text) == [vec |-> text]
\* json.dump writes an int key of a dict as a string
KeyStr(i) == <<"0", "1", "2", "3">>[i + 1]

\* a dict keyed by name keeps one entry per distinct name
IndexToNameByName(tool_names) ==
  LET firsts == { i \in 1..Len(tool_names) :
                    \A j \in 1..(i - 1) : tool_names[j] # tool_names[i] }
      Pick(k) == CHOOSE i \in firsts : Cardinality({ j \in firsts : j < i }) = k - 1
  IN [k \in 1..Cardinality(firsts) |-> [key |-> k - 1, name |-> tool_names[Pick(k)]]]
\* line 53: {i: name for i, name in enumerate(tool_names)}, in insertion order
IndexToName(tool_names) ==
  [i \in 1..Len(tool_names) |-> [key |-> i - 1, name |-> tool_names[i]]]
\* lines 54-55: the dict as json.dump writes it
JsonDump(d) == [i \in 1..Len(d) |-> [key |-> KeyStr(d[i].key), name |-> d[i].name]]

BuildRunning == build.pc \in {"loaded", "prepared", "encoded", "index_written"}
BuildEnds(pc) == [NoBuild EXCEPT !.pc = pc]

\* lines 12-18: a run starts and reads tools.json
BuildLoad ==
  /\ ~BuildRunning
  /\ build' = IF tools_file.present
              THEN [pc |-> "loaded", tools |-> tools_file.content,
                    tool_names |-> <<>>, embeddings |-> <<>>]
              ELSE BuildEnds("returned")
  /\ UNCHANGED <<tools_file, index_file, mapping_file>>
  /\ UNCHANGED botvars

\* lines 23-29: the texts and the names; tool['name'] raises KeyError
BuildPrepare ==
  /\ build.pc = "loaded"
  /\ build' = IF \E i \in 1..Len(build.tools) : "name" \notin DOMAIN build.tools[i]
              THEN [build EXCEPT !.pc = "KeyError"]
              ELSE [build EXCEPT !.pc = "prepared",
                      !.tool_names = [i \in 1..Len(build.tools) |-> build.tools[i].name]]
  /\ UNCHANGED <<tools_file, index_file, mapping_file>>
  /\ UNCHANGED botvars

\* lines 33-42: the model is loaded and encodes the texts, or raises; the
\* array of an empty list has one dimension and shape[1] raises IndexError
BuildEncode(ok) ==
  /\ build.pc = "prepared"
  /\ build' = IF ~ok THEN [build EXCEPT !.pc = "ModelError"]
              ELSE IF build.tools = <<>> THEN [build EXCEPT !.pc = "IndexError"]
              ELSE [build EXCEPT !.pc = "encoded",
                      !.embeddings = [i \in 1..Len(build.tools) |->
                                        Embed(CombinedText(build.tools[i]))]]
  /\ UNCHANGED <<tools_file, index_file, mapping_file>>
  /\ UNCHANGED botvars

\* lines 45-49: the index of the vectors is written to tools.faiss
BuildWriteIndex ==
  /\ build.pc = "encoded"
  /\ index_file' = [present |-> TRUE, of |-> build.tools, content |-> build.embeddings]
  /\ build' = [build EXCEPT !.pc = "index_written"]
  /\ UNCHANGED <<tools_file, mapping_file>>
  /\ UNCHANGED botvars

\* lines 53-55: the mapping is written to index_to_name.json
BuildWriteMapping ==
  /\ build.pc = "index_written"
  /\ mapping_file' = [present |-> TRUE, of |-> build.tools,
                      content |-> JsonDump(IndexToName(build.tool_names))]
  /\ build' = [build EXCEPT !.pc = "done"]
  /\ UNCHANGED <<tools_file, index_file>>
  /\ UNCHANGED botvars

\* the process is killed between two steps
BuildCrash ==
  /\ BuildRunning
  /\ build' = BuildEnds("crashed")
  /\ UNCHANGED <<tools_file, index_file, mapping_file>>
  /\ UNCHANGED botvars

\* tools.json is updated (docstring, line 10) or removed
EditCatalog(f) ==
  /\ f # tools_file
  /\ tools_file' = f
  /\ UNCHANGED <<index_file, mapping_file, build>>
  /\ UNCHANGED botvars

NextBuild ==
  \/ BuildLoad
  \/ BuildPrepare
  \/ \E ok \in BOOLEAN : BuildEncode(ok)
  \/ BuildWriteIndex
  \/ BuildWriteMapping
  \/ BuildCrash
  \/ \E f \in ToolsFiles : EditCatalog(f)
SpecBuild == Init /\ [][NextBuild]_vars

\* ------------------------------------------------------------ properties
Done(h) == running.pc = "done" /\ running.handler = h
CallsTo(fn) == { i \in 1..Len(trace) : trace[i].k = "call" /\ trace[i].what = fn }
ExtCalls == { i \in 1..Len(trace) : trace[i].k = "ext" }
LastReply == IF trace = <<>> THEN Reply("") ELSE trace[Len(trace)]
NoSnapshots(u) == \A n \in ToolNames : tool_snap[u][n] = NoSnap
SessionDiscarded(u) ==
  conversations[u] = Idle /\ last_query[u] = NoQuery /\ NoSnapshots(u)

\* C1: after a cancel signal the user's session is Idle and holds neither a
\* lastQuery nor a card snapshot.
C1_CancelDiscardsSession ==
  (running.pc = "done" /\ running.upd = Command("cancel"))
    => SessionDiscarded(running.user)

\* C2: in GET_RECOMMENDATION_INPUT, whatever name list the reranker returns
\* (non-empty, empty, or empty because the call failed or no key is set),
\* handling the text stores it as last_query, ends with the follow-up offer
\* and leaves the session in WEB_SEARCH_PROMPT.
C2_FreeTextReachesFollowUp ==
  (Done("get_recommendation") /\ rerank_result[running.user] \in {"names", "empty"})
    => /\ conversations[running.user] = WEB_SEARCH_PROMPT
       /\ last_query[running.user] = running.upd.data
       /\ LastReply = Reply("follow-up offer")
       /\ running.exc = "none"
C2_Witness ==
  /\ Done("get_recommendation") /\ running.exc = "none"
  /\ conversations[running.user] = WEB_SEARCH_PROMPT
  /\ last_query[running.user] = running.upd.data
  /\ \E i \in 1..Len(trace) : trace[i].k = "card"

\* C3: in GET_KEYWORD_SEARCH_INPUT, handling a keyword stores it as
\* last_query, ends with the follow-up offer and leaves the session in
\* WEB_SEARCH_PROMPT.
C3_KeywordReachesFollowUp ==
  Done("keyword_search") =>
    /\ conversations[running.user] = WEB_SEARCH_PROMPT
    /\ last_query[running.user] = running.upd.data
    /\ LastReply = Reply("follow-up offer")
    /\ running.exc = "none"

\* C4: in CHOOSE_ACTION the "smart" text leads to GET_RECOMMENDATION_INPUT,
\* the "quick search" text to GET_KEYWORD_SEARCH_INPUT and every other text
\* back to CHOOSE_ACTION, and no text changes last_query or a card snapshot.
C4_ModeChoice ==
  [][ \A u \in Users, t \in Texts :
        choose_action(u, t) =>
          /\ t = SmartChoice => conversations'[u] = GET_RECOMMENDATION_INPUT
          /\ t = QuickChoice => conversations'[u] = GET_KEYWORD_SEARCH_INPUT
          /\ t \notin {SmartChoice, QuickChoice} => conversations'[u] = CHOOSE_ACTION
          /\ UNCHANGED <<last_query, tool_snap>>
    ]_vars
C4_Witness ==
  /\ Done("choose_action") /\ running.upd.data = QuickChoice
  /\ conversations[running.user] = GET_KEYWORD_SEARCH_INPUT
  /\ last_query[running.user] # NoQuery
  /\ ~NoSnapshots(running.user)

\* C5 (as claimed): the "search web" choice runs the fallback exactly once
\* on the stored last_query and the session is then Idle.
FallbackOnceOnLastQuery(u) ==
  /\ Cardinality(CallsTo("perform_live_web_search")) = 1
  /\ Cardinality(CallsTo("summarize_search_results")) = 1
  /\ \A i \in CallsTo("perform_live_web_search") \cup CallsTo("summarize_search_results") :
       trace[i].arg = last_query[u]
WebChoiceHandled == Done("web_search_prompt_handler") /\ running.upd.data = WebChoice
C5_WebSearchThenIdle ==
  WebChoiceHandled =>
    (FallbackOnceOnLastQuery(running.user) /\ conversations[running.user] = Idle)
\* C5 (amended): the "search web" choice runs the fallback exactly once on the
\* stored last_query, then shows the main menu, and the session is then in
\* CHOOSE_ACTION.
C5_WebSearchThenMenu ==
  WebChoiceHandled =>
    /\ FallbackOnceOnLastQuery(running.user)
    /\ LastReply = Reply("main menu")
    /\ conversations[running.user] = CHOOSE_ACTION
C5_Witness ==
  /\ WebChoiceHandled
  /\ last_query[running.user] = WebChoice
  /\ \E i \in 1..Len(trace) : trace[i] = SummaryOf("summary")

\* C6: after the "main menu" choice in WEB_SEARCH_PROMPT the session is Idle
\* and holds neither a lastQuery nor a card snapshot.
C6_MainMenuDiscardsSession ==
  (Done("start") /\ running.upd = Text(MenuChoice))
    => SessionDiscarded(running.user)

\* C7: the reranker returns an empty result for every outcome of the external
\* call that is not a {"best_matches": [name, ...]} object, raises nothing to
\* get_recommendation, and without a credential returns empty without a call.
C7_RerankerFailsSoft ==
  /\ \A u \in Users : rerank_result[u] # "other"
  /\ (running.handler = "get_recommendation" /\ ~config.groq)
       => (ExtCalls = {} /\ rerank_result[running.user] = "empty")

\* C8 (as claimed): after a free-text query whose rerank result is empty the
\* pipeline has invoked the fallback exactly once with the query text and
\* raised nothing.
EmptyResultHandled ==
  Done("get_recommendation") /\ rerank_result[running.user] = "empty"
FallbackInvoked ==
  CallsTo("perform_live_web_search") \cup CallsTo("summarize_search_results") # {}
C9_FallbackOnlyAfterEmpty ==
  FallbackInvoked => rerank_result[running.user] = "empty"
\* C9 (amended): the fallback is invoked only by the "search web" choice of
\* the follow-up, on the query of the user's preceding get_recommendation,
\* whether the rerank result of that query was empty or not.
C9_FallbackOnlyOnWebChoice ==
  FallbackInvoked =>
    /\ running.handler = "web_search_prompt_handler"
    /\ running.upd = Text(WebChoice)
    /\ rerank_result[running.user] \in {"empty", "names", "other"}
    /\ \A i \in CallsTo("perform_live_web_search") \cup CallsTo("summarize_search_results") :
         trace[i].arg = last_query[running.user]
C9_Witness ==
  /\ WebChoiceHandled /\ FallbackInvoked
  /\ rerank_result[running.user] = "names"

\* C10: after price_check for tool T and a following back for T by the same
\* user, the card is exactly the card (text, entities, keyboard) that was
\* in the chat when price_check took its snapshot.
C10_BackRestoresCard ==
  (Done("back_to_tool_callback") /\ running.exc = "none")
    => card[running.user][running.upd.name]
         = card_at_snapshot[running.user][running.upd.name]

\* C11: Scenario C. A cancel received in WEB_SEARCH_PROMPT while a snapshot of
\* the card of a tool is held leaves the session Idle with last_query and the
\* snapshot cleared; a press of the back button of that card right after it
\* shows the "original information was not found" message, raises nothing and
\* changes neither the conversation state nor last_query nor a snapshot.
C11_BackAfterCancel ==
  [][ \A u \in Users, n \in ToolNames :
        /\ (conversations[u] = WEB_SEARCH_PROMPT /\ tool_snap[u][n] # NoSnap
              /\ CancelCommand(u))
             => SessionDiscarded(u)'
        /\ (running.upd = Command("cancel") /\ running.user = u
              /\ back_to_tool_callback(u, n))
             => /\ card'[u][n] = RestoredCard(NoSnap).msg
                /\ running'.exc = "none"
                /\ UNCHANGED <<conversations, last_query, tool_snap>>
    ]_vars

\* C12: whenever tools.faiss and index_to_name.json both exist they were
\* written by builds of the same catalog snapshot.
C12_FilesOfSameBuild ==
  (index_file.present /\ mapping_file.present) => index_file.of = mapping_file.of

\* C13: after a build that completed, the mapping has one entry per index
\* row and per catalog record, with distinct keys, and its i-th entry maps
\* row i-1 to the name of the i-th record, so that it is a function of the
\* catalog alone.
C13_MappingMatchesCatalog ==
  build.pc = "done" =>
    /\ Len(mapping_file.content) = Len(index_file.content)
    /\ Len(mapping_file.content) = Len(build.tools)
    /\ \A i \in 1..Len(build.tools) :
         mapping_file.content[i] = [key |-> KeyStr(i - 1), name |-> build.tools[i].name]
    /\ \A i \in 1..Len(build.tools) :
         index_file.content[i] = Embed(CombinedText(build.tools[i]))
C13_Witness ==
  /\ build.pc = "done"
  /\ Len(build.tools) = 2
  /\ build.tools[1] # build.tools[2]
  /\ build.tools[1].name = build.tools[2].name
  /\ Len(mapping_file.content) = 2

\* C14: while the handler of one user waits for an external call (reranker,
\* web search, summary, price lookup), an update of every other user can be
\* dispatched: its /start can be handled.
C14_OtherUsersNotBlocked ==
  running.pc \in {"rerank_call", "search_call", "summary_call", "price_call"}
    => \A u \in Users \ {running.user} : ENABLED StartCommand(u)

\* C15: a text that no handler of the session's state matches is answered
\* with a re-prompt, leaves the conversation state as it was and raises
\* nothing.
C15_UnmatchedTextReprompted ==
  [][ \A u \in Users, t \in Texts :
        UnhandledText(u, t) =>
          /\ trace' # <<>> /\ trace'[Len(trace')].k = "reply"
          /\ conversations'[u] = conversations[u]
          /\ running'.exc = "none"
    ]_vars

\* C16: for every query and every list of names the reranker returns, at
\* most 3 cards are shown, and the cards are those of the names that resolve,
\* in the order of the list.
CardsShown(tr) ==
  LET cards == SelectSeq(tr, LAMBDA e : e.k = "card")
  IN [i \in 1..Len(cards) |-> cards[i].arg]
Resolved(tools, names) ==
  LET found == SelectSeq(names, LAMBDA n : find_tool_by_name(tools, n) # <<>>)
  IN [i \in 1..Len(found) |-> find_tool_by_name(tools, found[i])[1]["name"]]
C16_AtMostThreeCardsInOrder ==
  [][ \A resp \in RerankResponses :
        (running.pc = "rerank_call" /\ NameList(RerankReturn(resp))
           /\ RerankReturns(resp))
          => /\ Len(CardsShown(trace')) <= 3
             /\ CardsShown(trace') = Resolved(config.tools, RerankReturn(resp).v)
    ]_vars

\* C17: a step taken for one user leaves the conversation state, last_query
\* and snapshots of every other user as they were.
C17_OtherUsersUntouched ==
  [][ \A u \in Users :
        u # running'.user =>
          /\ conversations'[u] = conversations[u]
          /\ last_query'[u] = last_query[u]
          /\ tool_snap'[u] = tool_snap[u]
    ]_vars
C17_Witness ==
  /\ running.user = "u2" /\ Done("price_check_callback")
  /\ conversations["u2"] = WEB_SEARCH_PROMPT
  /\ ~NoSnapshots("u2")
  /\ conversations["u1"] = GET_KEYWORD_SEARCH_INPUT
  /\ last_query["u1"] # NoQuery
  /\ ~NoSnapshots("u1")

\* C18: /start in any state shows the main menu, puts the session in
\* CHOOSE_ACTION and leaves no snapshot of a tool card, and the next text of
\* the user is handled by choose_action.
C18_StartResetsSession ==
  [][ \A u \in Users :
        /\ StartCommand(u) =>
             /\ trace' = <<Reply("main menu")>>
             /\ conversations'[u] = CHOOSE_ACTION
             /\ NoSnapshots(u)'
        /\ (Done("start") /\ running.upd = Command("start") /\ running.user = u
              /\ running'.user = u /\ running'.upd.kind = "text")
             => running'.handler = "choose_action"
    ]_vars

\* C19: a session in WEB_SEARCH_PROMPT has a non-empty last_query, the "does
\* not remember" reply is never sent, and the "search web" choice calls the
\* web search with last_query, the text of the query handled last.
C19_FollowUpHasQuery ==
  /\ \A u \in Users : conversations[u] = WEB_SEARCH_PROMPT => last_query[u] # NoQuery
  /\ \A i \in 1..Len(trace) : trace[i] # Reply("forgot the query")
  /\ WebChoiceHandled =>
       /\ CallsTo("perform_live_web_search") # {}
       /\ \A i \in CallsTo("perform_live_web_search") :
            trace[i].arg = last_query[running.user]
  /\ Done("get_recommendation") => last_query[running.user] = running.upd.data
C19_Witness ==
  /\ WebChoiceHandled
  /\ last_query[running.user] = "notes"
  /\ \E i \in CallsTo("perform_live_web_search") : trace[i].arg = "notes"
  /\ ExtCalls # {}

\* C20: for a query the reranker answers with a list of names (possibly
\* empty), get_recommendation shows before the follow-up offer either the
\* "best matches" header followed by at least one card, or the "no good
\* match" message, and never both.
C20_HeaderWithCardsOrNoMatch ==
  (Done("get_recommendation") /\ running.exc = "none"
     /\ rerank_result[running.user] \in {"names", "empty"})
    => LET header == \E i \in 1..Len(trace) : trace[i] = Reply("best matches header")
           nomatch == \E i \in 1..Len(trace) : trace[i] = Reply("no good match")
           cards == CardsShown(trace)
       IN \/ header /\ cards # <<>> /\ ~nomatch
          \/ nomatch /\ ~header /\ cards = <<>>

====
